---- MODULE Spec2Model ----
(***************************************************************************)
(* State-machine model of the two engines of rosoform:                     *)
(*   ThoughtWeaver        (logic/transformations/thought-weaver.py)        *)
(*   CrystallizationEngine (logic/transformations/crystallization-engine.py)*)
(*                                                                         *)
(* Floating point values are carried as fixed-point integers scaled by     *)
(* SCALE (three decimals); math.sin / exp / log / sqrt are computed by     *)
(* series in that fixed point.  Texts are sequences of one-character       *)
(* strings.                                                                *)
(***************************************************************************)
EXTENDS Integers, Sequences, FiniteSets, TLC

SCALE == 1000

(* ---------------------------------------------------------------------- *)
(* Bounds of the model                                                     *)
(* ---------------------------------------------------------------------- *)
MaxWeaves == 3
MaxQueryDepth == 2
MaxNodes == 3
MaxBatch == 2

(* ---------------------------------------------------------------------- *)
(* Fixed-point arithmetic                                                  *)
(* ---------------------------------------------------------------------- *)
Abs(x) == IF x < 0 THEN -x ELSE x

Min(a, b) == IF a < b THEN a ELSE b

Max(a, b) == IF a > b THEN a ELSE b

\* division truncating toward zero (the sign-symmetric rounding)
TDiv(a, b) == IF a >= 0 THEN a \div b ELSE -((-a) \div b)

RECURSIVE SqrtSearch(_, _, _)
SqrtSearch(n, lo, hi) ==
    IF lo >= hi THEN lo
    ELSE LET mid == (lo + hi + 1) \div 2
         IN  IF mid * mid <= n THEN SqrtSearch(n, mid, hi)
                               ELSE SqrtSearch(n, lo, mid - 1)

\* floor of the square root of a natural number
ISqrt(n) == SqrtSearch(n, 0, Min(n, 46340))

\* math.sqrt of a fixed-point value
FSqrt(v) == ISqrt(v * SCALE)

RECURSIVE ExpHorner(_, _, _)
ExpHorner(x, k, t) ==
    IF k = 0 THEN t
    ELSE ExpHorner(x, k - 1, SCALE - TDiv(x * t, k * SCALE))

RECURSIVE ExpNeg(_)
\* math.exp(-x) for a fixed-point x >= 0
ExpNeg(x) ==
    IF x > SCALE THEN TDiv(ExpNeg(x - SCALE) * 368, SCALE)
    ELSE ExpHorner(x, 8, SCALE)

RECURSIVE Ln(_)
\* math.log(y) for a fixed-point y >= 1
Ln(y) ==
    IF y > 2 * SCALE THEN 693 + Ln(y \div 2)
    ELSE LET z  == TDiv((y - SCALE) * SCALE, y + SCALE)
             z2 == TDiv(z * z, SCALE)
             z3 == TDiv(z * z2, SCALE)
             z5 == TDiv(z3 * z2, SCALE)
             z7 == TDiv(z5 * z2, SCALE)
         IN  2 * (z + z3 \div 3 + z5 \div 5 + z7 \div 7)

\* sin(x) for a fixed-point x in [0, pi/2]
SinSeries(x) ==
    LET x2 == TDiv(x * x, SCALE)
        x3 == TDiv(x * x2, SCALE)
        x5 == TDiv(x3 * x2, SCALE)
        x7 == TDiv(x5 * x2, SCALE)
        x9 == TDiv(x7 * x2, SCALE)
    IN  x - x3 \div 6 + x5 \div 120 - x7 \div 5040 + x9 \div 362880

\* math.sin(2 * math.pi * k / n), k >= 0, n > 0
Sin2Pi(k, n) ==
    LET r    == k % n
        neg  == 2 * r > n
        h    == IF neg THEN n - r ELSE r           \* angle 2*pi*h/n in [0, pi]
        q    == IF 4 * h > n THEN n - 2 * h ELSE 2 * h
        \* angle pi*q/n in [0, pi/2]
        v    == SinSeries(TDiv(3142 * q, n))
    IN  IF neg THEN -v ELSE v

RECURSIVE SumSeq(_)
SumSeq(s) == IF s = <<>> THEN 0 ELSE Head(s) + SumSeq(Tail(s))

SeqToSet(s) == {s[i] : i \in 1..Len(s)}

(* ---------------------------------------------------------------------- *)
(* Text primitives (str.lower, str.isalpha, str.split, str.count)          *)
(* ---------------------------------------------------------------------- *)
LowerLetters == <<"a","b","c","d","e","f","g","h","i","j","k","l","m",
                  "n","o","p","q","r","s","t","u","v","w","x","y","z">>

UpperLetters == <<"A","B","C","D","E","F","G","H","I","J","K","L","M",
                  "N","O","P","Q","R","S","T","U","V","W","X","Y","Z">>

IsAlphaChar(c) == c \in SeqToSet(LowerLetters) \cup SeqToSet(UpperLetters)

LowerChar(c) ==
    IF c \in SeqToSet(UpperLetters)
    THEN LowerLetters[CHOOSE i \in 1..26 : UpperLetters[i] = c]
    ELSE c

LowerText(text) == [i \in 1..Len(text) |-> LowerChar(text[i])]

CountChar(text, c) == Cardinality({i \in 1..Len(text) : text[i] = c})

RECURSIVE SplitOn(_, _, _, _)
\* str.split(sep): every field, empty ones included
SplitOn(text, sep, i, cur) ==
    IF i > Len(text) THEN <<cur>>
    ELSE IF text[i] = sep THEN <<cur>> \o SplitOn(text, sep, i + 1, <<>>)
    ELSE SplitOn(text, sep, i + 1, Append(cur, text[i]))

\* str.split(): whitespace-separated fields, empty ones dropped
SplitWords(text) == SelectSeq(SplitOn(text, " ", 1, <<>>), LAMBDA w : w # <<>>)

(* ---------------------------------------------------------------------- *)
(* ThoughtWeaver: embedding and similarity                                 *)
(* ---------------------------------------------------------------------- *)
Vowels == {"a", "e", "i", "o", "u"}

PatternFreqs == <<1, 2, 3, 5, 8>>

TopTrigrams == 10

RECURSIVE BumpTrigram(_, _)
\* trigrams[trigram] = trigrams.get(trigram, 0) + 1 on an insertion-ordered dict
BumpTrigram(d, g) ==
    IF d = <<>> THEN << <<g, 1>> >>
    ELSE IF Head(d)[1] = g THEN << <<g, Head(d)[2] + 1>> >> \o Tail(d)
    ELSE <<Head(d)>> \o BumpTrigram(Tail(d), g)

RECURSIVE CountTrigrams(_, _, _)
CountTrigrams(tl, i, d) ==
    IF i + 2 > Len(tl) THEN d
    ELSE LET g == SubSeq(tl, i, i + 2)
         IN  IF \A j \in 1..3 : IsAlphaChar(g[j])
             THEN CountTrigrams(tl, i + 1, BumpTrigram(d, g))
             ELSE CountTrigrams(tl, i + 1, d)

RECURSIVE InsertByCount(_, _)
\* stable insertion for sorted(..., key=count, reverse=True)
InsertByCount(sorted, e) ==
    IF sorted = <<>> THEN <<e>>
    ELSE IF Head(sorted)[2] >= e[2] THEN <<Head(sorted)>> \o InsertByCount(Tail(sorted), e)
    ELSE <<e>> \o sorted

RECURSIVE SortByCount(_, _)
SortByCount(d, sorted) ==
    IF d = <<>> THEN sorted
    ELSE SortByCount(Tail(d), InsertByCount(sorted, Head(d)))

FirstN(s, n) == SubSeq(s, 1, Min(n, Len(s)))

VcPattern(tl) ==
    LET alpha == SelectSeq(tl, IsAlphaChar)
    IN  [i \in 1..Len(alpha) |-> IF alpha[i] \in Vowels THEN 1 ELSE 0]

PatternScore(vc, freq) ==
    IF vc = <<>> THEN 0
    ELSE SumSeq([i \in 1..Len(vc) |-> vc[i] * Sin2Pi(freq * (i - 1), Len(vc))])

SemanticDensity(words) ==
    IF words = <<>> THEN 0
    ELSE TDiv(Cardinality(SeqToSet(words)) * SCALE, Len(words))

PunctRhythm(text) ==
    TDiv((CountChar(text, "!") * 23 + CountChar(text, "?") * 17) * SCALE,
         10 * (Len(text) + 1))

\* ThoughtWeaver._generate_embedding
GenerateEmbedding(text) ==
    LET tl == LowerText(text)
    IN  [ trigram_top      |-> FirstN(SortByCount(CountTrigrams(tl, 1, <<>>), <<>>), TopTrigrams),
          vc_patterns      |-> [k \in 1..Len(PatternFreqs) |-> PatternScore(VcPattern(tl), PatternFreqs[k])],
          semantic_density |-> SemanticDensity(SplitWords(tl)),
          punct_rhythm     |-> PunctRhythm(text),
          length_log       |-> Ln((Len(text) + 1) * SCALE) ]

TrigramSet(embed) == {embed.trigram_top[i][1] : i \in 1..Len(embed.trigram_top)}

TrigramOverlap(embed1, embed2) ==
    LET t1 == TrigramSet(embed1)
        t2 == TrigramSet(embed2)
    IN  TDiv(Cardinality(t1 \cap t2) * 10 * SCALE, Cardinality(t1 \cup t2) * 10 + 1)

SumSquares(p) == SumSeq([i \in 1..Len(p) |-> TDiv(p[i] * p[i], SCALE)])

PatternCorrelation(p1, p2) ==
    LET n   == Min(Len(p1), Len(p2))
        dot == SumSeq([i \in 1..n |-> TDiv(p1[i] * p2[i], SCALE)])
        den == TDiv(FSqrt(SumSquares(p1) + 100) * FSqrt(SumSquares(p2) + 100), SCALE) + 100
    IN  TDiv(dot * SCALE, den)

DensityScore(embed1, embed2) ==
    TDiv(SCALE * SCALE, SCALE + 3 * Abs(embed1.semantic_density - embed2.semantic_density))

LengthScore(embed1, embed2) ==
    TDiv(SCALE * SCALE, SCALE + Abs(embed1.length_log - embed2.length_log))

\* ThoughtWeaver._calculate_similarity
CalculateSimilarity(embed1, embed2) ==
    TDiv( TrigramOverlap(embed1, embed2) * 350
        + PatternCorrelation(embed1.vc_patterns, embed2.vc_patterns) * 250
        + DensityScore(embed1, embed2) * 200
        + LengthScore(embed1, embed2) * 200, SCALE)

(* ---------------------------------------------------------------------- *)
(* Inputs                                                                  *)
(* ---------------------------------------------------------------------- *)
ThoughtIds == {"t1", "t2", "t3"}

TextAbc == <<"a","b","c">>

TextTea == <<"T","e","a"," ","t","e","a","!">>

TextEmpty == <<>>

WeaverContents == {TextAbc, TextTea, TextEmpty}

\* the (content, author, category) triples weave_thought is called with
Posts ==
    { <<TextAbc,   "ann", "ideas">>,
      <<TextAbc,   "bob", "help">>,
      <<TextTea,   "ann", "ideas">>,
      <<TextEmpty, "bob", "ideas">> }

TextB == <<"b">>

TextGoGo == <<"G","o"," ","g","o">>

TextClauses == <<"a"," ","a"," ","a"," ","a",","," ","a"," ","a"," ","a"," ","a">>

TextTeaTea == <<"T","e","a",","," ","t","e","a">>

LatticeContents == {TextB, TextGoGo, TextClauses, TextTeaTea}

\* values of hash(seed_content) % 1000000 that a run can give
ContentHashValues == {101, 202, 303}

\* The (content, author) pairs the lattice calls are given; an author is given
\* as its hash, of which the engine reads hash(author) % 100 and nothing else.
\* "b" and "Go go" lie within reach and their energies are near; "a a a a, a
\* a a a" lies out of reach of "b" with a near energy, and within reach of
\* "Go go" with a distant energy.
LatticePosts ==
    { <<TextB,       0>>,
      <<TextGoGo,    40>>,
      <<TextClauses, 43>> }

\* with "Tea, tea", which is within reach of both "b" and "Go go" and near in
\* energy to "Go go" only
AnalyzePosts == LatticePosts \cup { <<TextTeaTea, 50>> }

(* ---------------------------------------------------------------------- *)
(* State                                                                   *)
(* ---------------------------------------------------------------------- *)
VARIABLES
    thought_embeddings,   \* ThoughtWeaver.thought_embeddings: id -> record
    embedding_order,      \* insertion order of the keys of thought_embeddings
    connection_graph,     \* ThoughtWeaver.connection_graph: id -> list of edges
    clock,                \* datetime.now(), in hours
    weaves,               \* number of weave_thought calls made
    crystal_nodes,        \* the CrystalNode objects created so far; an object is its index
    crystal_formations,   \* CrystallizationEngine.crystal_formations: node_id -> object
    content_hash,         \* hash(content) % 1000000 of the contents hashed so far
    last                  \* the last call and what it returned

weaverVars == <<thought_embeddings, embedding_order, connection_graph, clock, weaves>>

latticeVars == <<crystal_nodes, crystal_formations, content_hash>>

vars == <<thought_embeddings, embedding_order, connection_graph, clock, weaves,
          crystal_nodes, crystal_formations, content_hash, last>>

(* ---------------------------------------------------------------------- *)
(* ThoughtWeaver: weave_thought                                            *)
(* ---------------------------------------------------------------------- *)
resonance_decay_factor == 870

\* ThoughtWeaver._compute_temporal_weight; now is the clock it reads itself
ComputeTemporalWeight(timestamp, now) ==
    LET hours_elapsed == (now - timestamp) * SCALE
    IN  TDiv(ExpNeg(TDiv(hours_elapsed, 24)) * resonance_decay_factor, SCALE)

SameAuthorBoost(similarity, a, b) ==
    IF a.author = b.author THEN TDiv(similarity * 14, 10) ELSE similarity

SameCategoryBoost(similarity, a, b) ==
    IF a.category = b.category THEN TDiv(similarity * 13, 10) ELSE similarity

\* the score _discover_connections compares with the threshold
FinalScore(new_data, existing_data) ==
    LET base     == CalculateSimilarity(new_data.vector, existing_data.vector)
        boosted  == SameCategoryBoost(SameAuthorBoost(base, new_data, existing_data),
                                      new_data, existing_data)
    IN  TDiv(boosted * existing_data.temporal_weight, SCALE)

\* self.connection_graph.get(id, [])
ConnectionsOf(graph, id) == IF id \in DOMAIN graph THEN graph[id] ELSE <<>>

ConnectionThreshold == 300

\* the threshold written with a digit too many: similarity > 0.03
Qualifies_lowThreshold(similarity) == similarity > 30

Qualifies(similarity) == similarity > ConnectionThreshold

\* the list is assigned instead of appended to
AppendEdge_assign(graph, src, edge) ==
    [k \in DOMAIN graph \cup {src} |-> IF k = src THEN <<edge>> ELSE graph[k]]

\* self.connection_graph[src].append(edge) on a defaultdict(list)
AppendEdge(graph, src, edge) ==
    [k \in DOMAIN graph \cup {src} |->
        IF k = src
        THEN Append(IF src \in DOMAIN graph THEN graph[src] ELSE <<>>, edge)
        ELSE graph[k]]

\* the new thought compared with itself as well
SkipsSelf_never(existing_id, new_thought_id) == FALSE

\* if existing_id == new_thought_id: continue
SkipsSelf(existing_id, new_thought_id) == existing_id = new_thought_id

RECURSIVE DiscoverLoop(_, _, _, _, _)
\* the loop of _discover_connections over thought_embeddings.items();
\* raised is the KeyError of the subscript on line 126
DiscoverLoop(te, order, i, graph, new_id) ==
    IF i > Len(order) THEN [te |-> te, graph |-> graph, raised |-> FALSE]
    ELSE LET existing_id == order[i]
             similarity  == FinalScore(te[new_id], te[existing_id])
         IN  IF SkipsSelf(existing_id, new_id)
             THEN DiscoverLoop(te, order, i + 1, graph, new_id)
             ELSE IF Qualifies(similarity)
             THEN LET g2 == AppendEdge(graph, new_id,
                                       [target |-> existing_id, strength |-> similarity])
                  IN  IF "connection_strength" \in DOMAIN te[new_id].vector
                      THEN DiscoverLoop(
                             [te EXCEPT ![new_id].vector.connection_strength =
                                 [k \in DOMAIN @ \cup {existing_id} |->
                                     IF k = existing_id THEN similarity ELSE @[k]]],
                             order, i + 1, g2, new_id)
                      ELSE [te |-> te, graph |-> g2, raised |-> TRUE]
             ELSE DiscoverLoop(te, order, i + 1, graph, new_id)

\* ThoughtWeaver._discover_connections
DiscoverConnections(te, order, graph, new_id) ==
    DiscoverLoop(te, order, 1, graph, new_id)

\* self.thought_embeddings[thought_id] = {...}
StoreEmbedding(te, thought_id, data) ==
    [k \in DOMAIN te \cup {thought_id} |-> IF k = thought_id THEN data ELSE te[k]]

\* _generate_embedding of every content the calls use, computed once
EmbeddingTable == [c \in WeaverContents |-> GenerateEmbedding(c)]

\* ThoughtWeaver.weave_thought
WeaveThought(thought_id, content_text, author_id, category) ==
    /\ weaves < MaxWeaves
    /\ LET embedding   == EmbeddingTable[content_text]
           time_weight == ComputeTemporalWeight(clock, clock)
           data        == [ vector              |-> embedding,
                            author              |-> author_id,
                            category            |-> category,
                            temporal_weight     |-> time_weight,
                            connection_strength |-> <<>> ]
           order1      == IF thought_id \in DOMAIN thought_embeddings
                          THEN embedding_order
                          ELSE Append(embedding_order, thought_id)
       IN  \E out \in { DiscoverConnections(
                           StoreEmbedding(thought_embeddings, thought_id, data),
                           order1, connection_graph, thought_id) } :
               /\ thought_embeddings' = out.te
               /\ embedding_order' = order1
               /\ connection_graph' = out.graph
               /\ last' = [ op     |-> "weave_thought",
                            id     |-> thought_id,
                            before |-> DOMAIN thought_embeddings,
                            edges_before |-> Len(ConnectionsOf(connection_graph, thought_id)),
                            now    |-> clock,
                            raised |-> out.raised ]
    /\ weaves' = weaves + 1
    /\ UNCHANGED <<clock, latticeVars>>

(* ---------------------------------------------------------------------- *)
(* ThoughtWeaver: get_thought_constellation                                *)
(* ---------------------------------------------------------------------- *)
\* constellation[key] = entry
PutEntry(constellation, key, entry) ==
    [k \in DOMAIN constellation \cup {key} |-> IF k = key THEN entry ELSE constellation[k]]

\* the visited test left out
Unvisited_always(target_id, visited) == TRUE

\* if target_id not in visited
Unvisited(target_id, visited) == target_id \notin visited

RECURSIVE ConnectionLoop(_, _, _, _, _)
\* the for loop over the connections of current_id (lines 175-191); st carries
\* visited, constellation, queue and assigned, the list of the ids given an
\* entry, in the order they were given it
ConnectionLoop(conns, j, current_id, current_depth, st) ==
    IF j > Len(conns) THEN st
    ELSE LET target_id == conns[j].target
             strength  == conns[j].strength
             st1 == IF Unvisited(target_id, st.visited)
                    THEN [ visited       |-> st.visited \cup {target_id},
                           constellation |-> PutEntry(st.constellation, target_id,
                                               [ depth                |-> current_depth + 1,
                                                 connections          |-> <<>>,
                                                 strength_from_origin |-> strength ]),
                           queue         |-> Append(st.queue, <<target_id, current_depth + 1>>),
                           assigned      |-> Append(st.assigned, target_id) ]
                    ELSE st
             st2 == [st1 EXCEPT !.constellation[current_id].connections =
                                    Append(@, [to |-> target_id, strength |-> strength])]
         IN  ConnectionLoop(conns, j + 1, current_id, current_depth, st2)

\* the limit tested one level late
AtDepthLimit_oneLate(current_depth, depth) == current_depth > depth

\* if current_depth >= depth: continue
AtDepthLimit(current_depth, depth) == current_depth >= depth

RECURSIVE ConstellationLoop(_, _, _)
\* the while loop over the queue (lines 169-191)
ConstellationLoop(graph, depth, st) ==
    IF st.queue = <<>> THEN st
    ELSE LET current_id    == Head(st.queue)[1]
             current_depth == Head(st.queue)[2]
             popped        == [st EXCEPT !.queue = Tail(@)]
         IN  IF AtDepthLimit(current_depth, depth)
             THEN ConstellationLoop(graph, depth, popped)
             ELSE ConstellationLoop(graph, depth,
                     ConnectionLoop(ConnectionsOf(graph, current_id), 1,
                                    current_id, current_depth, popped))

\* ThoughtWeaver.get_thought_constellation
GetThoughtConstellation(graph, thought_id, depth) ==
    ConstellationLoop(graph, depth,
        [ visited       |-> {thought_id},
          constellation |-> PutEntry(<<>>, thought_id, [depth |-> 0, connections |-> <<>>]),
          queue         |-> << <<thought_id, 0>> >>,
          assigned      |-> <<thought_id>> ])

\* the graph read by subscript: the defaultdict gains an empty list for every id
\* looked up
GraphAfterLookups_subscript(graph, ids) ==
    [k \in DOMAIN graph \cup ids |-> ConnectionsOf(graph, k)]

\* the graph after the lookups of a traversal: connection_graph.get(id, [])
\* adds no key
GraphAfterLookups(graph, ids) == graph

Constellation(thought_id, depth) ==
    /\ \E out \in {GetThoughtConstellation(connection_graph, thought_id, depth)} :
          /\ last' = [ op            |-> "get_thought_constellation",
                       id            |-> thought_id,
                       depth         |-> depth,
                       constellation |-> out.constellation,
                       assigned      |-> out.assigned ]
          /\ connection_graph' = GraphAfterLookups(connection_graph, out.visited)
    /\ UNCHANGED <<thought_embeddings, embedding_order, clock, weaves, latticeVars>>

(* ---------------------------------------------------------------------- *)
(* ThoughtWeaver: compute_influence_radius                                 *)
(* ---------------------------------------------------------------------- *)
\* the authors asked about; "eve" never posts
Authors == {"ann", "bob", "eve"}

\* depth=2 of the traversals compute_influence_radius makes
InfluenceDepth == 2

\* the thought itself counted as reached
ReachCount_withSeed(constellation) == Cardinality(DOMAIN constellation)

\* len(constellation) - 1
ReachCount(constellation) == Cardinality(DOMAIN constellation) - 1

RECURSIVE AuthorThoughts(_, _, _, _)
\* [tid for tid, data in self.thought_embeddings.items() if data['author'] == author_id]
AuthorThoughts(te, order, i, author_id) ==
    IF i > Len(order) THEN <<>>
    ELSE IF te[order[i]].author = author_id
    THEN <<order[i]>> \o AuthorThoughts(te, order, i + 1, author_id)
    ELSE AuthorThoughts(te, order, i + 1, author_id)

\* ThoughtWeaver.compute_influence_radius
ComputeInfluenceRadius(te, order, graph, author_id) ==
    LET author_thoughts == AuthorThoughts(te, order, 1, author_id)
        total_reach == SumSeq([i \in 1..Len(author_thoughts) |->
                          ReachCount(GetThoughtConstellation(graph, author_thoughts[i],
                                                             InfluenceDepth).constellation)])
    IN  IF author_thoughts = <<>> THEN 0
        ELSE TDiv(total_reach * SCALE, Len(author_thoughts))

Influence(author_id) ==
    /\ last' = [ op     |-> "compute_influence_radius",
                 author |-> author_id,
                 result |-> ComputeInfluenceRadius(thought_embeddings, embedding_order,
                                                   connection_graph, author_id) ]
    /\ UNCHANGED <<weaverVars, latticeVars>>

(* ---------------------------------------------------------------------- *)
(* ThoughtWeaver: detect_thought_clusters                                  *)
(* ---------------------------------------------------------------------- *)
ClusterStrength == 500

\* the strength test left out
StrongEnough_any(strength) == TRUE

\* strength > 0.5
StrongEnough(strength) == strength > ClusterStrength

\* the membership test made against the cluster being grown
JoinsCluster_ownCluster(target, strength, st) ==
    target \notin st.cluster /\ StrongEnough(strength)

\* if target in unvisited and strength > 0.5
JoinsCluster(target, strength, st) ==
    target \in st.unvisited /\ StrongEnough(strength)

RECURSIVE GrowEdges(_, _, _)
\* the for loop of _grow_cluster over the connections of current
GrowEdges(conns, j, st) ==
    IF j > Len(conns) THEN st
    ELSE IF JoinsCluster(conns[j].target, conns[j].strength, st)
    THEN GrowEdges(conns, j + 1,
            [ cluster   |-> st.cluster \cup {conns[j].target},
              unvisited |-> st.unvisited \ {conns[j].target},
              queue     |-> Append(st.queue, conns[j].target) ])
    ELSE GrowEdges(conns, j + 1, st)

RECURSIVE GrowLoop(_, _)
GrowLoop(graph, st) ==
    IF st.queue = <<>> THEN st
    ELSE GrowLoop(graph,
            GrowEdges(ConnectionsOf(graph, Head(st.queue)), 1,
                      [st EXCEPT !.queue = Tail(@)]))

\* ThoughtWeaver._grow_cluster; returns the cluster and what is left unvisited
GrowCluster(graph, seed, unvisited) ==
    GrowLoop(graph, [cluster |-> {seed}, unvisited |-> unvisited \ {seed}, queue |-> <<seed>>])

\* next(iter(unvisited)): the first id of the set's iteration order
NextSeed(iteration, unvisited) ==
    iteration[CHOOSE i \in 1..Len(iteration) :
                 /\ iteration[i] \in unvisited
                 /\ \A j \in 1..(i - 1) : iteration[j] \notin unvisited]

\* the size test left out: every grown cluster is returned
KeepsCluster_always(cluster, min_cluster_size) == TRUE

\* if len(cluster) >= min_cluster_size
KeepsCluster(cluster, min_cluster_size) == Cardinality(cluster) >= min_cluster_size

RECURSIVE DetectLoop(_, _, _, _, _)
\* the while loop of detect_thought_clusters; seeds lists the seeds taken
DetectLoop(graph, iteration, min_cluster_size, unvisited, out) ==
    IF unvisited = {} THEN out
    ELSE LET seed  == NextSeed(iteration, unvisited)
             grown == GrowCluster(graph, seed, unvisited)
         IN  DetectLoop(graph, iteration, min_cluster_size, grown.unvisited,
                [ clusters |-> IF KeepsCluster(grown.cluster, min_cluster_size)
                               THEN Append(out.clusters, grown.cluster)
                               ELSE out.clusters,
                  seeds    |-> Append(out.seeds, seed),
                  grown    |-> Append(out.grown, grown.cluster) ])

\* ThoughtWeaver.detect_thought_clusters; iteration is the order in which the
\* set of ids iterates
DetectThoughtClusters(te, graph, iteration, min_cluster_size) ==
    DetectLoop(graph, iteration, min_cluster_size, DOMAIN te,
               [clusters |-> <<>>, seeds |-> <<>>, grown |-> <<>>])

\* the orders a set can iterate in
IterationOrders(S) ==
    {q \in [1..Cardinality(S) -> S] : \A i, j \in 1..Cardinality(S) : q[i] = q[j] => i = j}

MaxClusterSize == 2

Clusters(iteration, min_cluster_size) ==
    /\ \E out \in {DetectThoughtClusters(thought_embeddings, connection_graph,
                                         iteration, min_cluster_size)} :
          last' = [ op       |-> "detect_thought_clusters",
                    min      |-> min_cluster_size,
                    clusters |-> out.clusters,
                    seeds    |-> out.seeds,
                    grown    |-> out.grown ]
    /\ UNCHANGED <<weaverVars, latticeVars>>

MaxClock == 1

\* time passes between calls
Tick ==
    /\ clock < MaxClock
    /\ clock' = clock + 1
    /\ UNCHANGED <<thought_embeddings, embedding_order, connection_graph, weaves, last>>
    /\ UNCHANGED latticeVars

(* ---------------------------------------------------------------------- *)
(* CrystallizationEngine: geometry and energy of a content                 *)
(* ---------------------------------------------------------------------- *)
lattice_constant == 1618

binding_threshold == 700

RECURSIVE SyllableScan(_, _, _, _)
SyllableScan(word, i, previous_was_vowel, syllable_count) ==
    IF i > Len(word) THEN syllable_count
    ELSE LET is_vowel == LowerChar(word[i]) \in Vowels
         IN  SyllableScan(word, i + 1, is_vowel,
                IF is_vowel /\ ~previous_was_vowel THEN syllable_count + 1
                                                   ELSE syllable_count)

\* CrystallizationEngine._estimate_syllables
EstimateSyllables(word) == Max(1, SyllableScan(word, 1, FALSE, 0))

\* CrystallizationEngine._map_content_to_space
MapContentToSpace(content) ==
    LET words           == SplitWords(LowerText(content))
        lexical_entropy == IF Len(words) > 0
                           THEN TDiv(Cardinality(SeqToSet(words)) * SCALE, Len(words))
                           ELSE 0
        clauses         == SplitOn(content, ",", 1, <<>>)
        avg_clause_len  == TDiv(SumSeq([i \in 1..Len(clauses) |-> Len(SplitWords(clauses[i]))]) * SCALE,
                                Len(clauses))
        syllable_est    == SumSeq([i \in 1..Len(words) |-> EstimateSyllables(words[i])])
    IN  << TDiv(lexical_entropy * 3142, SCALE),
           Ln(avg_clause_len + SCALE),
           FSqrt(syllable_est * SCALE) \div 10 >>

\* CrystallizationEngine._compute_binding_energy
ComputeBindingEnergy(content, author) ==
    LET length_factor == Min(SCALE, TDiv(Len(content) * SCALE, 500))
        author_factor == TDiv((author % 100) * SCALE, 100)
        words         == SplitWords(content)
        unique_ratio  == IF words # <<>>
                         THEN TDiv(Cardinality(SeqToSet(words)) * SCALE, Len(words))
                         ELSE 0
    IN  TDiv(length_factor * 300 + author_factor * 400 + unique_ratio * 300, SCALE)

FaceNames == <<"cubic", "hexagonal", "tetragonal", "orthorhombic", "monoclinic">>

FaceLetters == << <<"a", "e">>, <<"i", "o">>, <<"u", "y">>, <<"s", "t">>, <<"n", "r">> >>

FaceScore(content_lower, k) ==
    CountChar(content_lower, FaceLetters[k][1]) + CountChar(content_lower, FaceLetters[k][2])

\* CrystallizationEngine._identify_crystal_face: max() keeps the first maximum
IdentifyCrystalFace(content) ==
    LET t == LowerText(content)
    IN  FaceNames[CHOOSE k \in 1..5 :
                     /\ \A j \in 1..5 : FaceScore(t, j) <= FaceScore(t, k)
                     /\ \A j \in 1..(k - 1) : FaceScore(t, j) < FaceScore(t, k)]

\* CrystallizationEngine._euclidean_distance
EuclideanDistance(pos1, pos2) ==
    ISqrt( (pos1[1] - pos2[1]) * (pos1[1] - pos2[1])
         + (pos1[2] - pos2[2]) * (pos1[2] - pos2[2])
         + (pos1[3] - pos2[3]) * (pos1[3] - pos2[3]) )

\* the geometry and face of every content the calls use, computed once
PositionTable == [c \in LatticeContents |-> MapContentToSpace(c)]

FaceTable == [c \in LatticeContents |-> IdentifyCrystalFace(c)]

(* ---------------------------------------------------------------------- *)
(* CrystallizationEngine: nucleate, attach, grow                           *)
(* ---------------------------------------------------------------------- *)
\* the engine's mutable state while a call runs
Engine == [nodes |-> crystal_nodes, formations |-> crystal_formations]

\* self.crystal_formations[node.node_id] = node
Register(formations, node_id, node) ==
    [k \in DOMAIN formations \cup {node_id} |-> IF k = node_id THEN node ELSE formations[k]]

\* f"crystal_{hash(seed_content) % 1000000}"
NodeId(ch, seed_content) == ch[seed_content]

\* CrystallizationEngine.nucleate_crystal; the new object is the last of nodes
NucleateCrystal(eng, ch, seed_content, seed_author) ==
    LET node == [ node_id          |-> NodeId(ch, seed_content),
                  position_vector  |-> PositionTable[seed_content],
                  binding_energy   |-> ComputeBindingEnergy(seed_content, seed_author),
                  lattice_neighbors |-> {},
                  crystal_face     |-> FaceTable[seed_content] ]
    IN  [ nodes      |-> Append(eng.nodes, node),
          formations |-> Register(eng.formations, node.node_id, Len(eng.nodes) + 1) ]

\* math.exp(-energy_diff / 0.5)
BindingProbability(energy1, energy2) == ExpNeg(Abs(energy1 - energy2) * 2)

\* the distance test left out
CanBind_energyOnly(new_node, existing_node) ==
    BindingProbability(new_node.binding_energy, existing_node.binding_energy)
        > binding_threshold

\* the two tests of attach_to_lattice (lines 142 and 147)
CanBind(new_node, existing_node) ==
    /\ EuclideanDistance(new_node.position_vector, existing_node.position_vector)
          <= TDiv(lattice_constant * 15, 10)
    /\ BindingProbability(new_node.binding_energy, existing_node.binding_energy)
          > binding_threshold

\* set.add on the neighbor set of the object at index n
AddNeighbor(nodes, n, id) ==
    [nodes EXCEPT ![n].lattice_neighbors = @ \cup {id}]

\* CrystallizationEngine.attach_to_lattice on the objects at new and existing
AttachToLattice(nodes, new, existing) ==
    IF CanBind(nodes[new], nodes[existing])
    THEN [ nodes  |-> AddNeighbor(AddNeighbor(nodes, new, nodes[existing].node_id),
                                  existing, nodes[new].node_id),
           bonded |-> TRUE ]
    ELSE [ nodes |-> nodes, bonded |-> FALSE ]

\* the order a set of ids iterates in, as the ids taken from iteration
InOrder(iteration, ids) == SelectSeq(iteration, LAMBDA id : id \in ids)

RECURSIVE Ascending(_)
\* a set of ids as a list.  grow_crystal iterates the seed's neighbor set, and
\* the bonds it makes are the same in every order: each attach_to_lattice reads
\* only positions and energies, which never change, and adds to sets
Ascending(ids) ==
    IF ids = {} THEN <<>>
    ELSE LET m == CHOOSE x \in ids : \A y \in ids : x <= y
         IN  <<m>> \o Ascending(ids \ {m})

RECURSIVE PackNeighbors(_, _, _, _, _)
\* the inner loop of grow_crystal (lines 181-184) over the seed's neighbors
PackNeighbors(nodes, formations, new, todo, j) ==
    IF j > Len(todo) THEN nodes
    ELSE IF todo[j] \in DOMAIN formations
    THEN PackNeighbors(AttachToLattice(nodes, new, formations[todo[j]]).nodes,
                       formations, new, todo, j + 1)
    ELSE PackNeighbors(nodes, formations, new, todo, j + 1)

RECURSIVE GrowLoopLattice(_, _, _, _, _, _)
\* the loop of grow_crystal over new_contents (lines 173-184)
GrowLoopLattice(eng, ch, seed_node, new_contents, i, attached_nodes) ==
    IF i > Len(new_contents) THEN [eng |-> eng, attached_nodes |-> attached_nodes]
    ELSE LET e1       == NucleateCrystal(eng, ch, new_contents[i][1], new_contents[i][2])
             new_node == Len(e1.nodes)
             first    == AttachToLattice(e1.nodes, new_node, seed_node)
         IN  IF first.bonded
             THEN GrowLoopLattice(
                     [ nodes      |-> PackNeighbors(first.nodes, e1.formations, new_node,
                                         Ascending(first.nodes[seed_node].lattice_neighbors), 1),
                       formations |-> e1.formations ],
                     ch, seed_node, new_contents, i + 1,
                     Append(attached_nodes, new_node))
             ELSE GrowLoopLattice([nodes |-> first.nodes, formations |-> e1.formations],
                     ch, seed_node, new_contents, i + 1, attached_nodes)

\* CrystallizationEngine.grow_crystal
GrowCrystal(eng, ch, seed_id, new_contents) ==
    IF seed_id \notin DOMAIN eng.formations
    THEN [eng |-> eng, attached_nodes |-> <<>>]
    ELSE GrowLoopLattice(eng, ch, eng.formations[seed_id], new_contents, 1, <<>>)

Range(f) == {f[x] : x \in DOMAIN f}

RECURSIVE Hashed(_, _)
\* the hash tables a run can have once the contents in S are hashed too.  A
\* hash is fixed once computed; ids are only compared for equality, so a new
\* content takes either a value already in use (a collision) or the first
\* unused one
Hashed(f, S) ==
    IF S \subseteq DOMAIN f THEN {f}
    ELSE LET c     == CHOOSE x \in S \ DOMAIN f : TRUE
             free  == ContentHashValues \ Range(f)
             fresh == {v \in free : \A w \in free : v <= w}
         IN  UNION { Hashed([k \in DOMAIN f \cup {c} |-> IF k = c THEN v ELSE f[k]], S) :
                        v \in Range(f) \cup fresh }

Nucleate(seed_content, seed_author) ==
    /\ Len(crystal_nodes) < MaxNodes
    /\ \E ch \in Hashed(content_hash, {seed_content}) :
          \E out \in {NucleateCrystal(Engine, ch, seed_content, seed_author)} :
             /\ crystal_nodes' = out.nodes
             /\ crystal_formations' = out.formations
             /\ content_hash' = ch
             /\ last' = [ op      |-> "nucleate_crystal",
                          content |-> seed_content,
                          author  |-> seed_author,
                          node    |-> Len(out.nodes),
                          node_id |-> out.nodes[Len(out.nodes)].node_id ]
    /\ UNCHANGED weaverVars

Attach(new, existing) ==
    /\ \E out \in {AttachToLattice(crystal_nodes, new, existing)} :
          /\ crystal_nodes' = out.nodes
          /\ last' = [ op       |-> "attach_to_lattice",
                       new      |-> new,
                       existing |-> existing,
                       result   |-> out.bonded,
                       new_before      |-> crystal_nodes[new].lattice_neighbors,
                       existing_before |-> crystal_nodes[existing].lattice_neighbors ]
    /\ UNCHANGED <<crystal_formations, content_hash, weaverVars>>

Grow(seed_id, new_contents) ==
    /\ Len(crystal_nodes) + Len(new_contents) <= MaxNodes
    /\ \E ch \in IF seed_id \in DOMAIN crystal_formations
                 THEN Hashed(content_hash, {new_contents[i][1] : i \in 1..Len(new_contents)})
                 ELSE {content_hash} :
          \E out \in {GrowCrystal(Engine, ch, seed_id, new_contents)} :
             /\ crystal_nodes' = out.eng.nodes
             /\ crystal_formations' = out.eng.formations
             /\ content_hash' = ch
             /\ last' = [ op             |-> "grow_crystal",
                          seed_id        |-> seed_id,
                          new_contents   |-> new_contents,
                          attached_nodes |-> out.attached_nodes ]
    /\ UNCHANGED weaverVars

(* ---------------------------------------------------------------------- *)
(* CrystallizationEngine: analyze_crystal_structure                        *)
(* ---------------------------------------------------------------------- *)
\* the recursion into the neighbors left out
NeighborsToVisit_none(node) == {}

\* the ids traverse is called on from a node: for neighbor_id in node.lattice_neighbors
NeighborsToVisit(node) == node.lattice_neighbors

RECURSIVE Traverse(_, _, _, _, _)
RECURSIVE TraverseAll(_, _, _, _, _, _)
\* the nested function traverse (lines 200-208); st carries visited and
\* crystal_nodes
Traverse(nodes, formations, iteration, node_id, st) ==
    IF node_id \in st.visited THEN st
    ELSE LET st1 == [st EXCEPT !.visited = @ \cup {node_id}]
         IN  IF node_id \in DOMAIN formations
             THEN TraverseAll(nodes, formations, iteration,
                     InOrder(iteration, NeighborsToVisit(nodes[formations[node_id]])), 1,
                     [st1 EXCEPT !.crystal_nodes = Append(@, formations[node_id])])
             ELSE st1

TraverseAll(nodes, formations, iteration, todo, j, st) ==
    IF j > Len(todo) THEN st
    ELSE TraverseAll(nodes, formations, iteration, todo, j + 1,
                     Traverse(nodes, formations, iteration, todo[j], st))

RECURSIVE CountFaces(_, _, _, _)
\* face_counts as an insertion-ordered dict
CountFaces(nodes, found, i, face_counts) ==
    IF i > Len(found) THEN face_counts
    ELSE CountFaces(nodes, found, i + 1, BumpTrigram(face_counts, nodes[found[i]].crystal_face))

\* max(face_counts, key=face_counts.get): the first key with the largest count
DominantFace(face_counts) ==
    face_counts[CHOOSE k \in 1..Len(face_counts) :
                   /\ \A j \in 1..Len(face_counts) : face_counts[j][2] <= face_counts[k][2]
                   /\ \A j \in 1..(k - 1) : face_counts[j][2] < face_counts[k][2]][1]

\* CrystallizationEngine._calculate_symmetry
CalculateSymmetry(nodes, found) ==
    IF found = <<>> THEN 0
    ELSE LET n        == Len(found)
             centroid == [d \in 1..3 |->
                             TDiv(SumSeq([i \in 1..n |-> nodes[found[i]].position_vector[d]]), n)]
             variance == TDiv(SumSeq([i \in 1..n |->
                             LET dist == EuclideanDistance(nodes[found[i]].position_vector, centroid)
                             IN  TDiv(dist * dist, SCALE)]), n)
         IN  TDiv(SCALE * SCALE, SCALE + variance)

\* a zeroed record handed back for an unknown id
EmptyResult_zeroed == [node_count |-> 0]

\* return {}: <<>> is the empty dict
EmptyResult == <<>>

\* CrystallizationEngine.analyze_crystal_structure
AnalyzeCrystalStructure(nodes, formations, iteration, crystal_id) ==
    IF crystal_id \notin DOMAIN formations THEN EmptyResult
    ELSE LET found == Traverse(nodes, formations, iteration, crystal_id,
                               [visited |-> {}, crystal_nodes |-> <<>>]).crystal_nodes
             faces == CountFaces(nodes, found, 1, <<>>)
         IN  [ node_count           |-> Len(found),
               total_binding_energy |-> SumSeq([i \in 1..Len(found) |-> nodes[found[i]].binding_energy]),
               average_coordination |-> TDiv(SumSeq([i \in 1..Len(found) |->
                                                Cardinality(nodes[found[i]].lattice_neighbors)]) * SCALE,
                                             Len(found)),
               dominant_face        |-> DominantFace(faces),
               face_distribution    |-> faces,
               crystal_symmetry     |-> CalculateSymmetry(nodes, found) ]

Analyze(crystal_id, iteration) ==
    /\ last' = [ op     |-> "analyze_crystal_structure",
                 id     |-> crystal_id,
                 result |-> AnalyzeCrystalStructure(crystal_nodes, crystal_formations,
                                                    iteration, crystal_id) ]
    /\ UNCHANGED <<weaverVars, latticeVars>>

Batches(posts) == UNION {[1..n -> posts] : n \in 0..MaxBatch}

LatticeNucleate ==
    \E p \in LatticePosts : Nucleate(p[1], p[2])

LatticeAttach ==
    \E new \in 1..Len(crystal_nodes), existing \in 1..Len(crystal_nodes) : Attach(new, existing)

LatticeGrow ==
    \E seed_id \in ContentHashValues, new_contents \in Batches(LatticePosts) :
        Grow(seed_id, new_contents)

AnalyzeNucleate ==
    \E p \in AnalyzePosts : Nucleate(p[1], p[2])

AnalyzeGrow ==
    \E seed_id \in ContentHashValues, new_contents \in Batches(AnalyzePosts) :
        Grow(seed_id, new_contents)

LatticeAnalyze ==
    \E crystal_id \in ContentHashValues, iteration \in IterationOrders(DOMAIN crystal_formations) :
        Analyze(crystal_id, iteration)

Init ==
    /\ thought_embeddings = <<>>
    /\ embedding_order = <<>>
    /\ connection_graph = <<>>
    /\ clock = 0
    /\ weaves = 0
    /\ crystal_nodes = <<>>
    /\ crystal_formations = <<>>
    /\ content_hash = <<>>
    /\ last = [op |-> "init"]

Weave ==
    \E id \in ThoughtIds, p \in Posts :
        WeaveThought(id, p[1], p[2], p[3])

QueryConstellation ==
    \E id \in ThoughtIds, depth \in 0..MaxQueryDepth : Constellation(id, depth)

QueryClusters ==
    \E iteration \in IterationOrders(DOMAIN thought_embeddings),
       min_cluster_size \in 1..MaxClusterSize :
        Clusters(iteration, min_cluster_size)

(* ---------------------------------------------------------------------- *)
(* ThoughtWeaver: _calculate_similarity on its own                         *)
(* ---------------------------------------------------------------------- *)
TextAaab == <<"a", "a", "a", "b">>

TextABBA == <<"a", " ", "b", " ", "b", " ", "a">>

TextAba == <<"a", "b", "a">>

TextSpacedAab == <<" ", "a", " ", "a", " ", "b">>

TextAbab == <<"a", "b", "a", "b">>

\* the texts whose fingerprints are compared with each other
SimilarityTexts ==
    WeaverContents \cup {TextAaab, TextABBA, TextAba, TextSpacedAab, TextAbab}

\* _generate_embedding of every such text, computed once
FingerprintTable == [c \in SimilarityTexts |-> GenerateEmbedding(c)]

\* two texts are picked
InitSimilarity ==
    /\ thought_embeddings = <<>>
    /\ embedding_order = <<>>
    /\ connection_graph = <<>>
    /\ clock = 0
    /\ weaves = 0
    /\ crystal_nodes = <<>>
    /\ crystal_formations = <<>>
    /\ content_hash = <<>>
    /\ \E text1 \in SimilarityTexts, text2 \in SimilarityTexts :
          last = [op |-> "texts", text1 |-> text1, text2 |-> text2]

\* _calculate_similarity applied to the fingerprints of the two texts
Similarity ==
    /\ last.op = "texts"
    /\ last' = [ op     |-> "_calculate_similarity",
                 text1  |-> last.text1,
                 text2  |-> last.text2,
                 result |-> CalculateSimilarity(FingerprintTable[last.text1],
                                                FingerprintTable[last.text2]) ]
    /\ UNCHANGED <<weaverVars, latticeVars>>

NextSimilarity == Similarity

SpecSimilarity == InitSimilarity /\ [][NextSimilarity]_vars

QueryInfluence ==
    \E author_id \in Authors : Influence(author_id)

\* weave_thought calls as time passes
Next ==
    \/ Weave
    \/ Tick

Spec == Init /\ [][Next]_vars

\* weave_thought calls interleaved with constellation queries
NextConstellation ==
    \/ Weave
    \/ QueryConstellation

SpecConstellation == Init /\ [][NextConstellation]_vars

\* weave_thought calls interleaved with cluster detection
NextClusters ==
    \/ Weave
    \/ QueryClusters

SpecClusters == Init /\ [][NextClusters]_vars

\* weave_thought calls interleaved with influence queries
NextInfluence ==
    \/ Weave
    \/ QueryInfluence

SpecInfluence == Init /\ [][NextInfluence]_vars

\* the four queries, each interleaved with the calls that build what it reads.
\* ThoughtWeaver and CrystallizationEngine share no state, so a run drives one
\* of the two
NextQueries ==
    \/ crystal_nodes = <<>> /\ Weave
    \/ crystal_nodes = <<>> /\ QueryConstellation
    \/ crystal_nodes = <<>> /\ QueryInfluence
    \/ crystal_nodes = <<>> /\ QueryClusters
    \/ weaves = 0 /\ AnalyzeNucleate
    \/ weaves = 0 /\ AnalyzeGrow
    \/ weaves = 0 /\ LatticeAnalyze

SpecQueries == Init /\ [][NextQueries]_vars

\* nucleate_crystal, grow_crystal and attach_to_lattice calls
NextLattice ==
    \/ LatticeNucleate
    \/ LatticeAttach
    \/ LatticeGrow

SpecLattice == Init /\ [][NextLattice]_vars

\* lattices built by nucleate_crystal and grow_crystal, analysed in between
NextAnalyze ==
    \/ AnalyzeNucleate
    \/ AnalyzeGrow
    \/ LatticeAnalyze

SpecAnalyze == Init /\ [][NextAnalyze]_vars

(* ---------------------------------------------------------------------- *)
(* Properties of ThoughtWeaver                                             *)
(* ---------------------------------------------------------------------- *)
Targets(edges) == {edges[i].target : i \in 1..Len(edges)}

\* the edges the last weave_thought call appended
AddedEdges ==
    SubSeq(ConnectionsOf(connection_graph, last.id), last.edges_before + 1,
           Len(ConnectionsOf(connection_graph, last.id)))

\* the thoughts registered before the last weave_thought call, bar the new one
Candidates == last.before \ {last.id}

\* C1: after weave_thought(new_id, ...), every previously registered thought
\* whose final score strictly exceeds 0.3 has an edge from new_id: no
\* qualifying existing thought is skipped.
C1_EveryQualifyingThoughtLinked ==
    last.op = "weave_thought" =>
        \A e \in Candidates :
            FinalScore(thought_embeddings[last.id], thought_embeddings[e]) > 300
                => e \in Targets(ConnectionsOf(connection_graph, last.id))

\* C2: every stored edge has a strength strictly greater than 0.3, and a
\* candidate whose final score is 0.3 or lower gets no edge from the call.
C2_EdgesExceedThreshold ==
    /\ \A k \in DOMAIN connection_graph :
          \A i \in 1..Len(connection_graph[k]) : connection_graph[k][i].strength > 300
    /\ last.op = "weave_thought" =>
          \A e \in Candidates :
              FinalScore(thought_embeddings[last.id], thought_embeddings[e]) <= 300
                  => e \notin Targets(AddedEdges)

PositionOf(id) == CHOOSE i \in 1..Len(embedding_order) : embedding_order[i] = id

\* a call that turned down a candidate scoring between 0.2 and 0.3 and then
\* linked a later one
C2_Witness ==
    /\ last.op = "weave_thought"
    /\ AddedEdges # <<>>
    /\ \E e \in Candidates :
          /\ FinalScore(thought_embeddings[last.id], thought_embeddings[e]) <= 300
          /\ FinalScore(thought_embeddings[last.id], thought_embeddings[e]) > 200
          /\ PositionOf(e) < PositionOf(AddedEdges[1].target)

NoRepeats(q) == \A i, j \in 1..Len(q) : q[i] = q[j] => i = j

\* C3: get_thought_constellation(root, maxDepth) gives each node an entry at
\* most once, records the root at depth 0, and records no depth above maxDepth.
C3_ConstellationBounded ==
    last.op = "get_thought_constellation" =>
        /\ NoRepeats(last.assigned)
        /\ SeqToSet(last.assigned) = DOMAIN last.constellation
        /\ last.constellation[last.id].depth = 0
        /\ \A k \in DOMAIN last.constellation :
              /\ last.constellation[k].depth >= 0
              /\ last.constellation[k].depth <= last.depth

\* a traversal that expanded a node whose edge leads back to the root: the
\* cycle offered the root a second entry, at a depth within the limit
C3_Witness ==
    /\ last.op = "get_thought_constellation"
    /\ \E k \in DOMAIN last.constellation :
          /\ k # last.id
          /\ last.constellation[k].depth + 1 <= last.depth
          /\ last.id \in {last.constellation[k].connections[i].to :
                             i \in 1..Len(last.constellation[k].connections)}

\* C4: the sets detect_thought_clusters returns are pairwise disjoint and
\* hold only ids registered in thought_embeddings.
C4_ClustersDisjoint ==
    last.op = "detect_thought_clusters" =>
        /\ \A i, j \in 1..Len(last.clusters) :
              i # j => last.clusters[i] \cap last.clusters[j] = {}
        /\ \A i \in 1..Len(last.clusters) : last.clusters[i] \subseteq DOMAIN thought_embeddings

StrongTargets(id) ==
    {connection_graph[id][i].target :
        i \in {n \in 1..Len(ConnectionsOf(connection_graph, id)) :
                  connection_graph[id][n].strength > 500}}

\* two clusters were returned although a member of the later one has a strong
\* edge into the earlier one
C4_Witness ==
    /\ last.op = "detect_thought_clusters"
    /\ \E i, j \in 1..Len(last.clusters) :
          /\ i < j
          /\ \E m \in last.clusters[j] : StrongTargets(m) \cap last.clusters[i] # {}

IsPrefix(a, b) == Len(a) <= Len(b) /\ SubSeq(b, 1, Len(a)) = a

NoDuplicateTargets(edges) == \A i, j \in 1..Len(edges) : edges[i].target = edges[j].target => i = j

EdgesKept ==
    \A k \in DOMAIN connection_graph :
        /\ k \in DOMAIN connection_graph'
        /\ IsPrefix(connection_graph[k], connection_graph'[k])

\* C8 as stated: no weave_thought call, whatever its id, replaces or removes a
\* stored record, and no existing edge is removed, duplicated or re-weighted.
C8_AppendOnly_AnyId ==
    [][ /\ \A id \in DOMAIN thought_embeddings :
              /\ id \in DOMAIN thought_embeddings'
              /\ thought_embeddings'[id] = thought_embeddings[id]
        /\ EdgesKept
        /\ \A k \in DOMAIN connection_graph :
              NoDuplicateTargets(connection_graph[k]) => NoDuplicateTargets(connection_graph'[k])
      ]_vars

\* C8 amended: a stored record is replaced only by a weave_thought call made
\* with that same id and is never removed; no existing edge is removed or
\* re-weighted; an edge is duplicated only in the list of an id that is woven
\* again.
C8_AppendOnly_OtherIds ==
    [][ /\ \A id \in DOMAIN thought_embeddings :
              /\ id \in DOMAIN thought_embeddings'
              /\ thought_embeddings'[id] # thought_embeddings[id]
                    => (last'.op = "weave_thought" /\ last'.id = id /\ weaves' = weaves + 1)
        /\ EdgesKept
        /\ \A k \in DOMAIN connection_graph :
              (NoDuplicateTargets(connection_graph[k]) /\ ~NoDuplicateTargets(connection_graph'[k]))
                  => (last'.op = "weave_thought" /\ last'.id = k /\ k \in last'.before)
      ]_vars

\* an id that already had edges was woven again next to other stored records
C8_Witness ==
    /\ last.op = "weave_thought"
    /\ last.id \in last.before
    /\ last.edges_before > 0
    /\ Len(ConnectionsOf(connection_graph, last.id)) > last.edges_before
    /\ Cardinality(DOMAIN thought_embeddings) >= 2

(* ---------------------------------------------------------------------- *)
(* Properties of CrystallizationEngine                                     *)
(* ---------------------------------------------------------------------- *)
\* the neighbor set of the node registered under id
NeighborsOf(id) == crystal_nodes[crystal_formations[id]].lattice_neighbors

\* C5: two nucleate_crystal calls with identical content and author create two
\* distinct nodes: the second returns a different node id and the registry
\* gains an entry.
C5_IdenticalContentNewNode ==
    [][ ( /\ last.op = "nucleate_crystal"
          /\ last'.op = "nucleate_crystal"
          /\ Len(crystal_nodes') = Len(crystal_nodes) + 1
          /\ last'.content = last.content
          /\ last'.author = last.author )
        => ( /\ last'.node_id # last.node_id
             /\ Cardinality(DOMAIN crystal_formations') =
                   Cardinality(DOMAIN crystal_formations) + 1 )
      ]_vars

\* C6: for all registered ids a and b, b is a neighbor of the node registered
\* under a if and only if a is a neighbor of the node registered under b.
C6_BondsSymmetric ==
    \A a, b \in DOMAIN crystal_formations :
        b \in NeighborsOf(a) <=> a \in NeighborsOf(b)

\* C7: across every step, every registered id stays registered and the
\* neighbor set registered under it after the step includes the one before.
C7_NeighborsOnlyGrow ==
    [][ \A id \in DOMAIN crystal_formations :
            /\ id \in DOMAIN crystal_formations'
            /\ NeighborsOf(id) \subseteq NeighborsOf(id)' ]_vars

AttachDistance ==
    EuclideanDistance(crystal_nodes[last.new].position_vector,
                      crystal_nodes[last.existing].position_vector)

AttachProbability ==
    ExpNeg(2 * Abs(crystal_nodes[last.new].binding_energy
                   - crystal_nodes[last.existing].binding_energy))

\* C9: attach_to_lattice bonds (each id added to the other's neighbor set,
\* True returned) only if the distance is <= lattice_constant * 1.5 and
\* exp(-|energy difference| / 0.5) > 0.7; nodes farther apart never bond; and
\* when it returns False both neighbor sets are as before.
C9_BondOnlyWithinReach ==
    last.op = "attach_to_lattice" =>
        /\ last.result =>
              /\ AttachDistance <= 2427
              /\ AttachProbability > 700
              /\ crystal_nodes[last.existing].node_id \in crystal_nodes[last.new].lattice_neighbors
              /\ crystal_nodes[last.new].node_id \in crystal_nodes[last.existing].lattice_neighbors
        /\ AttachDistance > 2427 => ~last.result
        /\ ~last.result =>
              /\ crystal_nodes[last.new].lattice_neighbors = last.new_before
              /\ crystal_nodes[last.existing].lattice_neighbors = last.existing_before

\* two nodes out of reach of each other whose energies would have let them
\* bond were offered to attach_to_lattice, which returned False
C9_Witness ==
    /\ last.op = "attach_to_lattice"
    /\ AttachDistance > 2427
    /\ AttachProbability > 700
    /\ ~last.result

RECURSIVE ReachClosure(_)
ReachClosure(ids) ==
    LET more == ids \cup UNION {NeighborsOf(id) \cap DOMAIN crystal_formations : id \in ids}
    IN  IF more = ids THEN ids ELSE ReachClosure(more)

\* the registered ids reachable from seed by following neighbor ids
ReachableFrom(seed) == ReachClosure({seed})

C11_UnknownIdEmptyResult ==
    [][ /\ (last'.op = "analyze_crystal_structure" /\ last'.id \notin DOMAIN crystal_formations)
              => (last'.result = <<>> /\ UNCHANGED latticeVars)
        /\ (last'.op = "grow_crystal" /\ last'.seed_id \notin DOMAIN crystal_formations)
              => (last'.attached_nodes = <<>> /\ UNCHANGED latticeVars)
      ]_vars

\* grow_crystal was given contents to add and a seed id that is not registered,
\* while other ids are
C11_Witness ==
    /\ last.op = "grow_crystal"
    /\ last.seed_id \notin DOMAIN crystal_formations
    /\ last.new_contents # <<>>
    /\ last.attached_nodes = <<>>
    /\ crystal_formations # <<>>

(* ---------------------------------------------------------------------- *)
(* Further properties of ThoughtWeaver                                     *)
(* ---------------------------------------------------------------------- *)
\* C12: get_thought_constellation on a root id that was never woven (absent
\* from thought_embeddings and from connection_graph) returns a mapping with no
\* entries.
C12_UnknownRootEmptyResult ==
    ( /\ last.op = "get_thought_constellation"
      /\ last.id \notin DOMAIN thought_embeddings
      /\ last.id \notin DOMAIN connection_graph )
        => DOMAIN last.constellation = {}

\* the targets of the edges stored for id
OutTargets(id) == Targets(ConnectionsOf(connection_graph, id))

\* the ids one outbound edge away from a member of S, and S itself
Hop(S) == S \cup UNION {OutTargets(id) : id \in S}

RECURSIVE WithinHops(_, _)
\* the ids reachable from id by at most n outbound edges
WithinHops(id, n) == IF n = 0 THEN {id} ELSE Hop(WithinHops(id, n - 1))

RECURSIVE SumReach(_)
\* the sum, over the thoughts in S, of the number of other ids within 2 hops
SumReach(S) ==
    IF S = {} THEN 0
    ELSE LET t == CHOOSE x \in S : TRUE
         IN  Cardinality(WithinHops(t, 2) \ {t}) + SumReach(S \ {t})

ThoughtsOf(author_id) ==
    {t \in DOMAIN thought_embeddings : thought_embeddings[t].author = author_id}

\* C17: compute_influence_radius(author) is 0 when the author has no
\* registered thought, and otherwise the number of ids other than t within 2
\* outbound hops of t, summed over the author's thoughts t and divided by the
\* number of those thoughts.
C17_InfluenceIsMeanReach ==
    last.op = "compute_influence_radius" =>
        IF ThoughtsOf(last.author) = {}
        THEN last.result = 0
        ELSE last.result = TDiv(SumReach(ThoughtsOf(last.author)) * SCALE,
                                Cardinality(ThoughtsOf(last.author)))

\* the author asked about has two thoughts, one of which reaches an id only
\* through a second hop, and the mean reach is not a whole number
C17_Witness ==
    /\ last.op = "compute_influence_radius"
    /\ Cardinality(ThoughtsOf(last.author)) = 2
    /\ \E t \in ThoughtsOf(last.author) : WithinHops(t, 2) # WithinHops(t, 1)
    /\ last.result % SCALE # 0

QueryOps ==
    {"get_thought_constellation", "compute_influence_radius",
     "detect_thought_clusters", "analyze_crystal_structure"}

\* the query that last returned, made again in the state it left, returns what
\* it returned (for a query that iterates over a set: under the order the set
\* iterated in)
RepeatedQueryAgrees ==
    /\ last.op = "get_thought_constellation" =>
          GetThoughtConstellation(connection_graph, last.id, last.depth).constellation
              = last.constellation
    /\ last.op = "compute_influence_radius" =>
          ComputeInfluenceRadius(thought_embeddings, embedding_order, connection_graph,
                                 last.author) = last.result
    /\ last.op = "detect_thought_clusters" =>
          \E iteration \in IterationOrders(DOMAIN thought_embeddings) :
              DetectThoughtClusters(thought_embeddings, connection_graph, iteration,
                                    last.min).clusters = last.clusters
    /\ last.op = "analyze_crystal_structure" =>
          \E iteration \in IterationOrders(DOMAIN crystal_formations) :
              AnalyzeCrystalStructure(crystal_nodes, crystal_formations, iteration, last.id)
                  = last.result

\* C13: get_thought_constellation, compute_influence_radius,
\* detect_thought_clusters and analyze_crystal_structure leave
\* thought_embeddings, connection_graph with its key set, crystal_formations
\* and every neighbor set as they were, for known and unknown ids, so the same
\* query made again returns the same result.
C13_QueriesReadOnly ==
    /\ [][ last'.op \in QueryOps =>
               /\ thought_embeddings' = thought_embeddings
               /\ connection_graph' = connection_graph
               /\ DOMAIN connection_graph' = DOMAIN connection_graph
               /\ crystal_formations' = crystal_formations
               /\ crystal_nodes' = crystal_nodes
          ]_vars
    /\ []RepeatedQueryAgrees

\* a constellation was asked for from a registered id that has no list in
\* connection_graph, and the traversal looked up a second id as well
C13_Witness ==
    /\ last.op = "get_thought_constellation"
    /\ last.id \in DOMAIN thought_embeddings
    /\ last.id \notin DOMAIN connection_graph
    /\ last.depth >= 1
    /\ connection_graph # <<>>

\* the grown sets that reached the minimum size, in the order they were grown
RECURSIVE LargeEnough(_, _)
LargeEnough(grown, min) ==
    IF grown = <<>> THEN <<>>
    ELSE IF Cardinality(Head(grown)) >= min
    THEN <<Head(grown)>> \o LargeEnough(Tail(grown), min)
    ELSE LargeEnough(Tail(grown), min)

\* C14: detect_thought_clusters(min_cluster_size) returns; every returned
\* cluster has at least min_cluster_size members; the members of a grown set
\* that stayed smaller are in no returned cluster and are never taken as a
\* later seed; and every registered id is consumed by exactly one grown set.
C14_SmallClustersDiscarded ==
    last.op = "detect_thought_clusters" =>
        /\ \A i \in 1..Len(last.clusters) : Cardinality(last.clusters[i]) >= last.min
        /\ last.clusters = LargeEnough(last.grown, last.min)
        /\ Len(last.seeds) = Len(last.grown)
        /\ \A i \in 1..Len(last.grown) :
              /\ last.seeds[i] \in last.grown[i]
              /\ \A j \in 1..Len(last.grown) : j > i => last.seeds[j] \notin last.grown[i]
              /\ Cardinality(last.grown[i]) < last.min =>
                    \A c \in 1..Len(last.clusters) : last.clusters[c] \cap last.grown[i] = {}
        /\ \A i, j \in 1..Len(last.grown) : i # j => last.grown[i] \cap last.grown[j] = {}
        /\ UNION {last.grown[i] : i \in 1..Len(last.grown)} = DOMAIN thought_embeddings

\* a grown set was discarded for its size, and a set grown later holds a
\* thought with a strong edge into the discarded one
C14_Witness ==
    /\ last.op = "detect_thought_clusters"
    /\ \E i, j \in 1..Len(last.grown) :
          /\ i < j
          /\ Cardinality(last.grown[i]) < last.min
          /\ \E m \in last.grown[j] : StrongTargets(m) \cap last.grown[i] # {}

\* C15: the time-decay multiplier applied to an existing thought decreases
\* with the hours since that thought was created: when a thought woven at one
\* hour is the candidate of a weave_thought call made at a later hour, the
\* multiplier that call applies to it is strictly smaller than the one a call
\* made in the hour of its creation applies.
C15_DecayGrowsWithAge ==
    [][ ( /\ last.op = "weave_thought"
          /\ last'.op = "weave_thought"
          /\ weaves' = weaves + 1
          /\ last'.id # last.id
          /\ last'.before = {last.id}
          /\ last'.now > last.now )
        => thought_embeddings'[last.id].temporal_weight
               < ComputeTemporalWeight(last.now, last.now)
      ]_vars

\* C16: whenever connection_graph holds an edge from a to b, a constellation
\* asked for with depth >= 1 from a contains b, and one asked for from b
\* contains a.
C16_QueriedFromEitherEndpoint ==
    (last.op = "get_thought_constellation" /\ last.depth >= 1) =>
        /\ \A b \in OutTargets(last.id) : b \in DOMAIN last.constellation
        /\ \A a \in DOMAIN connection_graph :
              last.id \in OutTargets(a) => a \in DOMAIN last.constellation

\* C18: the base similarity _calculate_similarity returns for two fingerprints
\* made by _generate_embedding lies between 0 and 1 inclusive.
C18_SimilarityInUnitInterval ==
    last.op = "_calculate_similarity" => (last.result >= 0 /\ last.result <= SCALE)

\* the least number of outbound edges on a path from root to k, for k within
\* limit edges of root
HopDistance(root, k, limit) == CHOOSE n \in 0..limit :
    /\ k \in WithinHops(root, n)
    /\ \A m \in 0..(n - 1) : k \notin WithinHops(root, m)

RECURSIVE StrongClosure(_, _)
\* the members of set reachable from the ids in reached along edges of
\* strength above 0.5 that stay inside set
StrongClosure(reached, set) ==
    LET more == reached \cup (set \cap UNION {StrongTargets(id) : id \in reached})
    IN  IF more = reached THEN reached ELSE StrongClosure(more, set)

\* the targets of the edges of id whose strength is 0.5 or less
WeakTargets(id) == OutTargets(id) \ StrongTargets(id)

\* C20: every member of a set grown by detect_thought_clusters, the returned
\* clusters among them, is reachable from the seed of that set by a path of
\* outbound edges of strength strictly above 0.5 that stays inside the set; an
\* edge of strength 0.5 or less pulls no node in.
C20_ClustersFollowStrongEdges ==
    last.op = "detect_thought_clusters" =>
        /\ \A i \in 1..Len(last.grown) :
              last.grown[i] = StrongClosure({last.seeds[i]}, last.grown[i])
        /\ \A c \in 1..Len(last.clusters) :
              \E i \in 1..Len(last.grown) : last.grown[i] = last.clusters[c]

\* a cluster of two or more was returned although one of its members has an
\* edge of strength 0.5 or less to an id that was still unvisited, which was
\* left for a later seed
C20_Witness ==
    /\ last.op = "detect_thought_clusters"
    /\ \E i, j \in 1..Len(last.grown) :
          /\ i < j
          /\ Cardinality(last.grown[i]) >= 2
          /\ last.grown[i] \in SeqToSet(last.clusters)
          /\ \E m \in last.grown[i] : WeakTargets(m) \cap last.grown[j] # {}

\* C21: in every reachable state, the source and the target of every stored
\* edge are keys of thought_embeddings, and they differ.
C21_EdgesJoinRegisteredThoughts ==
    \A src \in DOMAIN connection_graph :
        /\ src \in DOMAIN thought_embeddings
        /\ \A i \in 1..Len(connection_graph[src]) :
              /\ connection_graph[src][i].target \in DOMAIN thought_embeddings
              /\ connection_graph[src][i].target # src

\* a thought that is the target of an edge was woven again and got an edge
\* back to the source of that edge: two thoughts linked in both directions
C21_Witness ==
    /\ last.op = "weave_thought"
    /\ last.id \in last.before
    /\ \E other \in DOMAIN connection_graph :
          /\ other # last.id
          /\ last.id \in OutTargets(other)
          /\ other \in Targets(AddedEdges)

\* C22: in a sequence of weave_thought calls with distinct ids, no call ends
\* with an error: each returns with the thought registered, also when an
\* existing thought qualifies for an edge.
C22_WeaveNeverRaises ==
    ( /\ last.op = "weave_thought"
      /\ weaves = Cardinality(DOMAIN thought_embeddings) )
        => (~last.raised /\ last.id \in DOMAIN thought_embeddings)

(* ---------------------------------------------------------------------- *)
(* Further properties of CrystallizationEngine                             *)
(* ---------------------------------------------------------------------- *)
\* C23: after any sequence of nucleate_crystal and grow_crystal calls, no
\* node has its own id in its lattice_neighbors.
C23_NoSelfBond ==
    \A n \in 1..Len(crystal_nodes) :
        crystal_nodes[n].node_id \notin crystal_nodes[n].lattice_neighbors

====
